---- MODULE Spec2Model ----
(***************************************************************************)
(* TankFinder indexer (src/indexer/indexer.py): the incremental indexing   *)
(* pipeline over a small file tree.  One run of main() is a sequence of    *)
(* steps (start, one step per walked file, tail flush, delete pass,        *)
(* rollup, cleanup); between runs the file tree is edited.                 *)
(***************************************************************************)
EXTENDS Integers, Sequences, FiniteSets, TLC

(***************************************************************************)
(* Bounds of the model.                                                    *)
(***************************************************************************)
\* runs of main() in one behaviour, with any command line
MaxRuns == 2
\* runs of main() in one behaviour when every run is a complete scan
MaxFullRuns == 3
\* edits of the file tree in one behaviour
MaxEdits == 2
\* runs of main() in one behaviour over a tree whose files are renamed
MaxRenameRuns == 3
\* write transactions one indexer process commits
MaxTxns == 2
\* len(batch) / len(fts_batch) at which the loop flushes; the source's 800
\* (indexer.py:675, 710) scaled to the size of the modelled tree
FlushThreshold == 2

\* pdf_text.max_chars / office_text.max_chars: the source's default 40000
\* (indexer.py:591, 372) scaled to the texts of the model
MaxChars == 3
\* characters of the text a file holds
MaxText == 4

\* runs of main() in one behaviour over a tree with unreadable entries
MaxSkipRuns == 2
\* runs of main() in one behaviour when a run can be terminated from outside
MaxKillRuns == 2

\* files walk_files yields to the loop when only the counters are followed
MaxFeed == 3

\* SQL NULL / Python None
Null == -1

(***************************************************************************)
(* Paths.  A path is a sequence of segments; a segment carries its name,   *)
(* its lower-cased name, and what the regular expressions of the source    *)
(* find in the name:                                                       *)
(*   job  : leftmost match of JOB_ID_PAT  (\b\d{3}-\d{2}\b), <<num, yy>>   *)
(*   qnum : QNUM_RE group "num" (0: no match), qver : group "ver" (Null)   *)
(*   year : the number if YEAR_DIR_RE matches the whole name, else 0       *)
(*   yyyy : the number if the name is four decimal digits, else 0          *)
(*   ext  : Path.suffix.lower() of a file name, toks : norm_tokens(name)   *)
(***************************************************************************)
NoJob == <<>>

Seg(n, l, j, qn, qv, y, e, t) ==
    [name |-> n, lower |-> l, job |-> j, qnum |-> qn, qver |-> qv,
     year |-> IF 1900 <= y /\ y <= 2099 THEN y ELSE 0, yyyy |-> y,
     ext |-> e, toks |-> t]

Dir(n, l, t)        == Seg(n, l, NoJob, 0, Null, 0, "", t)
JobDir(n, l, j, t)  == Seg(n, l, j, 0, Null, 0, "", t)
\* a directory named by the four digits of y
YearDir(n, y)       == Seg(n, n, NoJob, 0, Null, y, "", {n})
QDir(n, l, q, v, t) == Seg(n, l, NoJob, q, v, 0, "", t)
File(n, l, e, t)    == Seg(n, l, NoJob, 0, Null, 0, e, t)
JobFile(n, l, e, j, t)  == Seg(n, l, j, 0, Null, 0, e, t)
QFile(n, l, e, q, v, t) == Seg(n, l, NoJob, q, v, 0, e, t)

\* cfg["roots"], cfg["quotes_roots"] as sequences of names
roots        == << <<"P:", "JOBS">> >>
quotes_roots == << <<"P:", "QUOTES">>, <<"P:", "JOBS", "101-23 Tank", "QUOTES">> >>

Names(path) == [i \in 1..Len(path) |-> path[i].name]

\* Path.relative_to succeeds: root is a proper-or-equal prefix of the path
IsUnder(path, root) ==
    /\ Len(root) <= Len(path)
    /\ \A i \in 1..Len(root) : path[i].name = root[i]

\* job_id values: [q |-> TRUE for a quote id "Q<num>-<yy>", num, yy]
NoId == [q |-> FALSE, num |-> 0, yy |-> 0]
JobId(j)       == [q |-> FALSE, num |-> j[1], yy |-> j[2]]
QuoteId(n, yy) == [q |-> TRUE, num |-> n, yy |-> yy]

\* job_re.search(str(p)): the leftmost match in the string of p
SearchJob(p) ==
    IF \E i \in 1..Len(p) : p[i].job # NoJob
    THEN LET i == CHOOSE k \in 1..Len(p) :
                     /\ p[k].job # NoJob
                     /\ \A m \in 1..(k - 1) : p[m].job = NoJob
         IN  p[i].job
    ELSE NoJob

\* parse_job_id_from_path: the first p of [path, *path.parents] whose string
\* has a match gives the result
parse_job_id_from_path(path) ==
    LET hit == {k \in 1..Len(path) : SearchJob(SubSeq(path, 1, k)) # NoJob}
    IN  IF hit = {} THEN NoId
        ELSE LET k == CHOOSE x \in hit : \A y \in hit : y <= x
             IN  JobId(SearchJob(SubSeq(path, 1, k)))

\* job_year_from_job_id
job_year_from_job_id(job_id) ==
    IF job_id.yy >= 90 THEN 1900 + job_id.yy ELSE 2000 + job_id.yy

\* the nearest directory of [path.parent, *path.parents] whose name has a
\* quote-number token, as a prefix length (0: none)
QFolder(path) ==
    LET hit == {k \in 1..(Len(path) - 1) : path[k].qnum # 0}
    IN  IF hit = {} THEN 0 ELSE CHOOSE x \in hit : \A y \in hit : y <= x

\* one iteration of the loop of parse_quote_context over quotes_roots;
\* NoQuote stands for "continue"
NoQuote == [job_id |-> NoId, jy |-> Null, job_root |-> 0, qver |-> Null]

QuoteUnderRoot(path, root, year_min, year_max) ==
    IF ~IsUnder(path, root) \/ Len(path) = Len(root) THEN NoQuote
    ELSE LET y  == path[Len(root) + 1].year
             qf == QFolder(path)
             m  == IF qf # 0 THEN path[qf] ELSE path[Len(path)]
         IN  IF y = 0 \/ ~(year_min <= y /\ y <= year_max) THEN NoQuote
             ELSE IF m.qnum = 0 THEN NoQuote
             ELSE [job_id   |-> QuoteId(m.qnum, y % 100),
                   jy       |-> y,
                   job_root |-> IF qf # 0 THEN qf ELSE Len(path) - 1,
                   qver     |-> IF m.qver # Null THEN m.qver ELSE 0]

\* parse_quote_context: the first root that yields a result
parse_quote_context(path, qroots, year_min, year_max) ==
    LET hit == {r \in 1..Len(qroots) :
                   QuoteUnderRoot(path, qroots[r], year_min, year_max) # NoQuote}
    IN  IF hit = {} THEN NoQuote
        ELSE LET r == CHOOSE x \in hit : \A y \in hit : x <= y
             IN  QuoteUnderRoot(path, qroots[r], year_min, year_max)

\* a mutant: the key is derived from the file name alone
file_hash16_name(path) == <<path[Len(path)].lower>>

\* file_hash16(str(p).lower()): the digest is taken as injective on the
\* lower-cased path string
file_hash16(path) == [i \in 1..Len(path) |-> path[i].lower]

(***************************************************************************)
(* The file tree of the pipeline: the paths that can exist on disk, in the *)
(* order walk_files yields them (roots first, then quotes_roots).  The     *)
(* last path is the first one in another letter case: the drive is         *)
(* case-insensitive, at most one of the two exists at a time.              *)
(***************************************************************************)
DriveP  == Dir("P:", "p:", {"p"})
JobsDir == Dir("JOBS", "jobs", {"jobs"})
QuotesDir == Dir("QUOTES", "quotes", {"quotes"})

Tree ==
    << <<DriveP, JobsDir,
         JobDir("101-23 Tank", "101-23 tank", <<101, 23>>, {"101", "23", "tank"}),
         File("calc.pdf", "calc.pdf", ".pdf", {"calc", "pdf"})>>,
       <<DriveP, QuotesDir, YearDir("2024", 2024),
         QDir("Q1234.1", "q1234.1", 1234, 1, {"q1234", "1"}),
         File("quote.pdf", "quote.pdf", ".pdf", {"quote", "pdf"})>>,
       <<DriveP, QuotesDir, YearDir("2024", 2024),
         QDir("Q1234.2", "q1234.2", 1234, 2, {"q1234", "2"}),
         File("quote.pdf", "quote.pdf", ".pdf", {"quote", "pdf"})>>,
       <<DriveP, JobsDir,
         JobDir("101-23 Tank", "101-23 tank", <<101, 23>>, {"101", "23", "tank"}),
         File("CALC.PDF", "calc.pdf", ".pdf", {"calc", "pdf"})>> >>

FileIds == 1..Len(Tree)
Key(i)  == file_hash16(Tree[i])
Keys    == {Key(i) : i \in FileIds}

\* the paths a file is first created with: one spelling of each path
BaseIds == {i \in FileIds : \A j \in 1..(i - 1) : Key(j) # Key(i)}

\* <<st_size, st_mtime>> values a file can have; st_mtime in half microseconds
Stats == {<<1, 2>>, <<1, 4>>, <<2, 4>>}

\* utc_iso: datetime keeps whole microseconds, the ISO strings are ordered
\* as the microsecond counts
utc_iso(ts) == ts \div 2

\* the command lines of main(): the default run, one per flag, and --dry-run
\* together with --rebuild-fts
Cmd(lim, dry, nodel, reb, qonly, ymin, ymax) ==
    [limit |-> lim, dry_run |-> dry, no_delete |-> nodel, rebuild_fts |-> reb,
     quotes_only |-> qonly, year_min |-> ymin, year_max |-> ymax]

ArgSet ==
    {Cmd(0, FALSE, FALSE, FALSE, FALSE, 2015, 2025),
     Cmd(1, FALSE, FALSE, FALSE, FALSE, 2015, 2025),
     Cmd(0, TRUE,  FALSE, FALSE, FALSE, 2015, 2025),
     Cmd(0, FALSE, TRUE,  FALSE, FALSE, 2015, 2025),
     Cmd(0, FALSE, FALSE, TRUE,  FALSE, 2015, 2025),
     Cmd(0, FALSE, FALSE, FALSE, TRUE,  2015, 2025),
     Cmd(0, FALSE, FALSE, FALSE, FALSE, 2024, 2025),
     Cmd(0, TRUE,  FALSE, TRUE,  FALSE, 2015, 2025)}

\* the complete scans among them: no --limit, --dry-run or --quotes-only
FullArgs ==
    {Cmd(0, FALSE, FALSE, FALSE, FALSE, 2015, 2025),
     Cmd(0, FALSE, FALSE, TRUE,  FALSE, 2015, 2025),
     Cmd(0, FALSE, FALSE, FALSE, FALSE, 2024, 2025)}

\* config.yaml: quotes_scan window, ignore lists, pdf_text / office_text
q_year_min == 2022
q_year_max == 2100
ignore_exts == {".tmp", ".bak"}
ignore_dir_tokens == {"backup"}
pdf_enabled == TRUE
office_enabled == FALSE

(***************************************************************************)
(* Tagging and extraction.                                                 *)
(***************************************************************************)
\* norm_tokens(p.name) + norm_tokens(str(p.parent)), as a set
name_tokens(path) == UNION {path[i].toks : i \in 1..Len(path)}

\* DEFAULT_DETECTORS restricted to the labels the rollup reads
apply_detectors(tokens, ext) ==
    (IF ext \in {".cw7", ".xml"} \/ tokens \cap {"compress", "codeware"} # {}
        THEN {"compress"} ELSE {})
    \cup (IF ext \in {".mdl", ".xmt_txt"} \/ tokens \cap {"ametank", "ame"} # {}
        THEN {"ametank"} ELSE {})
    \cup (IF ext \in {".dwg", ".dxf"} THEN {"cad"} ELSE {})
    \cup (IF ext = ".pdf" THEN {"pdf"} ELSE {})

detect_kind(ext) ==
    IF ext = ".pdf" THEN "pdf"
    ELSE IF ext \in {".dwg", ".dxf"} THEN "cad"
    ELSE IF ext \in {".txt", ".csv", ".log", ".md", ".xml", ".html", ".htm"} THEN "text"
    ELSE "other"

\* should_parse_pdf_jobs with an empty path_allow_tokens list
should_parse_pdf_jobs(path) ==
    pdf_enabled /\ path[Len(path)].ext = ".pdf"

should_parse_pdf_quotes_only(path) ==
    /\ path[Len(path)].ext = ".pdf"
    /\ parse_quote_context(path, quotes_roots, q_year_min, q_year_max) # NoQuote

\* main, lines 667-669 and 700-702: is extract_pdf_text called for the file
ParsesPdf(path, job_id) ==
    IF job_id.q THEN should_parse_pdf_quotes_only(path)
    ELSE should_parse_pdf_jobs(path)

\* extract_office_text reads the file only past its "enabled" guard
ParsesOffice(path) ==
    /\ office_enabled
    /\ path[Len(path)].ext \in {".txt", ".md", ".log", ".xml", ".html", ".htm"}

\* the searchable text of a file: its name tokens and, when a body is
\* extracted, the text of the file as it is on disk (st stands for the content)
FtsContent(path, job_id, st) ==
    [tokens |-> name_tokens(path),
     body   |-> IF ParsesPdf(path, job_id) \/ ParsesOffice(path) THEN st ELSE <<>>]

(***************************************************************************)
(* Database operations.  A table is a function from its primary key to the *)
(* row; fts_files has no key and is a set of rows.                         *)
(***************************************************************************)
\* a mutant: the upsert overwrites the year
ensure_job_overwrite(jobs_t, job_id, root_path, job_year) ==
    IF job_id \in DOMAIN jobs_t
    THEN [jobs_t EXCEPT ![job_id] =
            [@ EXCEPT !.root_path = root_path, !.job_year = job_year]]
    ELSE (job_id :> [root_path |-> root_path, job_year |-> job_year,
                     file_count_total |-> Null, byte_size_total |-> Null,
                     last_modified_utc |-> Null, has_pdf |-> Null,
                     has_dwg_dxf |-> Null, has_compress |-> Null,
                     has_ame |-> Null]) @@ jobs_t

\* ensure_job; the aggregate columns of a new row take the schema's default
ensure_job(jobs_t, job_id, root_path, job_year) ==
    IF job_id \in DOMAIN jobs_t
    THEN [jobs_t EXCEPT ![job_id] =
            [@ EXCEPT !.root_path = root_path,
                      !.job_year = IF @ # Null THEN @ ELSE job_year]]
    ELSE (job_id :> [root_path |-> root_path, job_year |-> job_year,
                     file_count_total |-> Null, byte_size_total |-> Null,
                     last_modified_utc |-> Null, has_pdf |-> Null,
                     has_dwg_dxf |-> Null, has_compress |-> Null,
                     has_ame |-> Null]) @@ jobs_t

\* one row of upsert_files: INSERT ... ON CONFLICT(file_hash16) DO UPDATE
UpsertFile(files_t, r) ==
    IF r.file_hash16 \in DOMAIN files_t
    THEN [files_t EXCEPT ![r.file_hash16] =
            [@ EXCEPT !.size_bytes = r.size_bytes,
                      !.mtime_utc = r.mtime_utc,
                      !.kind = r.kind,
                      !.detector_hits = r.detector_hits,
                      !.deleted = 0,
                      !.q_version = IF r.q_version # Null THEN r.q_version ELSE @]]
    ELSE (r.file_hash16 :> r) @@ files_t

RECURSIVE upsert_files(_, _)
upsert_files(files_t, rows) ==
    IF rows = <<>> THEN files_t
    ELSE upsert_files(UpsertFile(files_t, Head(rows)), Tail(rows))

\* a mutant: the rows are inserted without the DELETE by key
upsert_fts_insert_only(fts_t, fts_rows) ==
    fts_t \cup {fts_rows[i] : i \in 1..Len(fts_rows)}

\* upsert_fts_rows: DELETE by key, then INSERT, row by row
RECURSIVE upsert_fts_rows(_, _)
upsert_fts_rows(fts_t, fts_rows) ==
    IF fts_rows = <<>> THEN fts_t
    ELSE upsert_fts_rows(
           {e \in fts_t : e.file_hash16 # Head(fts_rows).file_hash16}
               \cup {Head(fts_rows)},
           Tail(fts_rows))

\* mark_deleted_missing
mark_deleted_missing(files_t, jobs_t, seen, year_min, year_max) ==
    LET sel == IF year_min # Null /\ year_max # Null
               THEN {k \in DOMAIN files_t :
                        /\ files_t[k].deleted = 0
                        /\ files_t[k].job_id \in DOMAIN jobs_t
                        /\ jobs_t[files_t[k].job_id].job_year # Null
                        /\ year_min <= jobs_t[files_t[k].job_id].job_year
                        /\ jobs_t[files_t[k].job_id].job_year <= year_max}
               ELSE {k \in DOMAIN files_t : files_t[k].deleted = 0}
        to_delete == {k \in sel : k \notin seen}
    IN  [k \in DOMAIN files_t |->
            IF k \in to_delete THEN [files_t[k] EXCEPT !.deleted = 1]
            ELSE files_t[k]]

\* a mutant: the aggregates count the soft-deleted rows too
AllRowsOf(files_t, job_id) ==
    {k \in DOMAIN files_t : files_t[k].job_id = job_id}

\* SELECT ... FROM files WHERE job_id=? AND deleted=0
ActiveOf(files_t, job_id) ==
    {k \in DOMAIN files_t : files_t[k].job_id = job_id /\ files_t[k].deleted = 0}

RECURSIVE SumSize(_, _)
SumSize(files_t, ks) ==
    IF ks = {} THEN 0
    ELSE LET k == CHOOSE x \in ks : TRUE
         IN  files_t[k].size_bytes + SumSize(files_t, ks \ {k})

MaxMtime(files_t, ks) ==
    IF ks = {} THEN Null
    ELSE LET k == CHOOSE x \in ks :
                    \A y \in ks : files_t[y].mtime_utc <= files_t[x].mtime_utc
         IN  files_t[k].mtime_utc

Bit(b) == IF b THEN 1 ELSE 0

\* the values rollup_job_stats computes for a job
JobStats(files_t, job_id) ==
    LET act == ActiveOf(files_t, job_id)
    IN  [file_count_total  |-> Cardinality(act),
         byte_size_total   |-> SumSize(files_t, act),
         last_modified_utc |-> MaxMtime(files_t, act),
         has_pdf      |-> Bit(\E k \in act : files_t[k].ext = ".pdf"
                                     \/ "pdf" \in files_t[k].detector_hits),
         has_dwg_dxf  |-> Bit(\E k \in act : files_t[k].ext \in {".dwg", ".dxf"}
                                     \/ "cad" \in files_t[k].detector_hits),
         has_compress |-> Bit(\E k \in act : "compress" \in files_t[k].detector_hits),
         has_ame      |-> Bit(\E k \in act : "ametank" \in files_t[k].detector_hits)]

\* rollup_job_stats: UPDATE jobs SET ... WHERE job_id=?
rollup_job_stats(jobs_t, files_t, job_id) ==
    IF job_id \notin DOMAIN jobs_t THEN jobs_t
    ELSE LET s == JobStats(files_t, job_id)
         IN  [jobs_t EXCEPT ![job_id] =
                [@ EXCEPT !.file_count_total = s.file_count_total,
                          !.byte_size_total = s.byte_size_total,
                          !.last_modified_utc = s.last_modified_utc,
                          !.has_pdf = s.has_pdf,
                          !.has_dwg_dxf = s.has_dwg_dxf,
                          !.has_compress = s.has_compress,
                          !.has_ame = s.has_ame]]

RECURSIVE RollupAll(_, _, _)
RollupAll(jobs_t, files_t, ids) ==
    IF ids = {} THEN jobs_t
    ELSE LET j == CHOOSE x \in ids : TRUE
         IN  RollupAll(rollup_job_stats(jobs_t, files_t, j), files_t, ids \ {j})

\* COALESCE(q_version, 0)
QVer(row) == IF row.q_version # Null THEN row.q_version ELSE 0

\* the rows cleanup_old_quote_versions selects: active quote PDFs
QuotePdfs(files_t) ==
    {k \in DOMAIN files_t :
        files_t[k].job_id.q /\ files_t[k].ext = ".pdf" /\ files_t[k].deleted = 0}

\* the inner SELECT of cleanup_old_quote_versions: keys of quote PDFs below
\* the maximum version of their job
Superseded(files_t) ==
    {k \in QuotePdfs(files_t) :
        \E m \in QuotePdfs(files_t) :
            /\ files_t[m].job_id = files_t[k].job_id
            /\ QVer(files_t[k]) < QVer(files_t[m])}

\* a mutant: the comparison of versions is inverted, the oldest is kept
cleanup_keep_oldest(fts_t, files_t) ==
    {e \in fts_t :
        ~(/\ e.file_hash16 \in QuotePdfs(files_t)
          /\ \E m \in QuotePdfs(files_t) :
                /\ files_t[m].job_id = files_t[e.file_hash16].job_id
                /\ QVer(files_t[e.file_hash16]) > QVer(files_t[m]))}

cleanup_old_quote_versions(fts_t, files_t) ==
    {e \in fts_t : e.file_hash16 \notin Superseded(files_t)}

(***************************************************************************)
(* main(): classification of one walked file (lines 623-651).              *)
(***************************************************************************)
\* a mutant: the quote context is tried first
ResolveJobQuoteFirst(path) ==
    LET j  == parse_job_id_from_path(path)
        qc == parse_quote_context(path, quotes_roots, q_year_min, q_year_max)
    IN  IF qc # NoQuote
        THEN [job_id |-> qc.job_id, jy |-> qc.jy, job_root |-> qc.job_root,
              qver |-> qc.qver, quote_tried |-> TRUE]
        ELSE [job_id |-> j, jy |-> Null, job_root |-> 0, qver |-> Null,
              quote_tried |-> TRUE]

\* lines 624-632: the job pattern first, the quote context only without a job
ResolveJob(path) ==
    LET j  == parse_job_id_from_path(path)
        qc == parse_quote_context(path, quotes_roots, q_year_min, q_year_max)
    IN  IF j # NoId
        THEN [job_id |-> j, jy |-> Null, job_root |-> 0, qver |-> Null,
              quote_tried |-> FALSE]
        ELSE [job_id |-> qc.job_id, jy |-> qc.jy, job_root |-> qc.job_root,
              qver |-> qc.qver, quote_tried |-> TRUE]

\* lines 645-651: the first of [p.parent, *p.parents] whose string has a match
JobRoot(path, job_root) ==
    IF job_root # 0 THEN job_root
    ELSE LET hit == {k \in 1..(Len(path) - 1) :
                        SearchJob(SubSeq(path, 1, k)) # NoJob}
         IN  IF hit = {} THEN Len(path) - 1
             ELSE CHOOSE x \in hit : \A y \in hit : y <= x

\* lines 634-642: "no_job", "out_of_year" or "ok" with the resolved values
Classify(path, a) ==
    LET r  == ResolveJob(path)
        jy == IF r.job_id # NoId /\ ~r.job_id.q /\ r.jy = Null
              THEN job_year_from_job_id(r.job_id) ELSE r.jy
    IN  [job_id      |-> r.job_id,
         jy          |-> jy,
         job_root    |-> JobRoot(path, r.job_root),
         qver        |-> r.qver,
         quote_tried |-> r.quote_tried,
         outcome     |-> IF r.job_id = NoId THEN "no_job"
                         ELSE IF ~r.job_id.q /\ jy # Null
                                 /\ (jy < a.year_min \/ jy > a.year_max)
                              THEN "out_of_year"
                         ELSE "ok"]

NotClassified ==
    [job_id |-> NoId, jy |-> Null, job_root |-> 0, qver |-> Null,
     quote_tried |-> FALSE, outcome |-> "pending"]

\* lines 611-614: the cheap skips
Ignored(path) ==
    \/ path[Len(path)].ext \in ignore_exts
    \/ \E k \in 1..(Len(path) - 1) : path[k].toks \cap ignore_dir_tokens # {}

\* line 661: the stored size and mtime both match
IsUnchanged(row, size, mtime_iso) ==
    row.size_bytes = size /\ row.mtime_utc = mtime_iso

\* a mutant: the fast path forgets the sighting
SeenUnchangedForgotten(seen, fh) == seen

\* line 677: the fast path records the sighting
SeenUnchanged(seen, fh) == seen \cup {fh}

\* a mutant: a row-limited scan counts as complete
complete_scan_any(a) == a.limit >= 0

\* a mutant: the delete pass ignores --no-delete and --quotes-only
DeletePassUngated(a) == ~a.dry_run /\ a.limit = 0

\* lines 721-722: the gate of the delete pass
complete_scan(a) == a.limit = 0

DeletePassEnabled(a) ==
    ~a.dry_run /\ complete_scan(a) /\ ~a.no_delete /\ ~a.quotes_only

\* lines 691-695
FileRow(path, c, st) ==
    [file_hash16   |-> file_hash16(path),
     job_id        |-> c.job_id,
     rel_path      |-> c.job_root,
     ext           |-> path[Len(path)].ext,
     size_bytes    |-> st[1],
     mtime_utc     |-> utc_iso(st[2]),
     kind          |-> detect_kind(path[Len(path)].ext),
     detector_hits |-> apply_detectors(name_tokens(path), path[Len(path)].ext),
     deleted       |-> 0,
     q_version     |-> IF c.job_id.q /\ path[Len(path)].ext = ".pdf"
                       THEN c.qver ELSE Null]

(***************************************************************************)
(* State.                                                                  *)
(***************************************************************************)
VARIABLES
    disk,                \* the file tree: file id -> <<st_size, st_mtime>>
    files, jobs, fts,    \* the tables as the run's connection sees them
    committed,           \* the tables as committed (what other connections see)
    pc,                  \* position of main(): idle, scan, tail, delete,
                         \*   rollup, cleanup, done
    args,                \* the command line of the run
    pending,             \* files walk_files has yet to yield
    total_scanned,       \* counters["total_scanned"]
    seen_hashes, batch, fts_batch, per_job_seen_roots,
    extracted,           \* keys whose content was read in this run
    unchanged,           \* keys that took the unchanged fast path in this run
    backfilled,          \* keys queued by the FTS backfill in this run
    revived,             \* keys sighted in this run whose row had deleted=1
    prev,                \* the tables at the start of the run, the command line
                         \*   of the run before
    dirty,               \* the tree was edited since the last run ended
    moved,               \* <<old, new>> of the renames since the last run ended
    runs, edits,
    cpath, cres,         \* classifier input and result (classification only)
    cons,                \* the connections of two indexer processes to the store
    walk,                \* the state of the generator walk_files
    doc,                 \* one file's name tokens and body, and the searchable
                         \*   text main() builds from them
    killed,              \* how the run before was terminated from outside
    tally                \* the files the loop is fed and counters (lines 597-601)

dbvars   == <<files, jobs, fts, committed>>
runvars  == <<pc, args, pending, total_scanned, seen_hashes, batch, fts_batch,
              per_job_seen_roots>>
obsvars  == <<extracted, unchanged, backfilled, revived, prev, dirty, moved,
              runs, edits>>
clsvars  == <<cpath, cres>>
sidevars == <<cons, walk>>
auxvars  == <<doc, killed, tally>>
vars     == <<disk, dbvars, runvars, obsvars, clsvars, sidevars, auxvars>>

EmptyFcn == [x \in {} |-> 0]

\* the indexer processes: the scheduled task and the one the GUI's update
\* button starts
Runs == {"scheduled", "gui"}

\* no process has connected
NoCons == [conn |-> [r \in Runs |-> "none"], lock |-> "none",
           txns |-> [r \in Runs |-> 0], wlog |-> <<>>]

\* walk_files has not been called
NoWalk == [roots |-> <<>>, year_only |-> FALSE, stack |-> <<>>, d |-> <<>>,
           attempt |-> 0, out |-> <<>>, skipped |-> {}, popped |-> {}]

\* no text is being built
NoDoc == [tokens |-> <<>>, ext |-> "", raw |-> <<>>, pdf_on |-> FALSE,
          office_on |-> FALSE, content |-> <<>>, built |-> FALSE]

\* the loop over walk_files is not running
NoTally == [feed |-> <<>>, limit |-> 0, stopped |-> FALSE, counters |-> <<>>]

\* doc, killed and tally of the pipeline: unused
AuxIdle == doc = NoDoc /\ killed = "no" /\ tally = NoTally

NoArgs == [limit |-> 0, dry_run |-> FALSE, no_delete |-> FALSE,
           rebuild_fts |-> FALSE, quotes_only |-> FALSE,
           year_min |-> 2015, year_max |-> 2025]

NoPrev == [valid |-> FALSE, args |-> NoArgs, files |-> EmptyFcn,
           jobs |-> EmptyFcn, fts |-> {}, same_tree |-> FALSE]

Init ==
    /\ \E present \in SUBSET BaseIds : disk = [i \in present |-> <<1, 2>>]
    /\ files = EmptyFcn /\ jobs = EmptyFcn /\ fts = {}
    /\ committed = [files |-> EmptyFcn, jobs |-> EmptyFcn, fts |-> {}]
    /\ pc = "idle" /\ args = NoArgs /\ pending = <<>> /\ total_scanned = 0
    /\ seen_hashes = {} /\ batch = <<>> /\ fts_batch = <<>>
    /\ per_job_seen_roots = EmptyFcn
    /\ extracted = {} /\ unchanged = {} /\ backfilled = {} /\ revived = {}
    /\ prev = NoPrev
    /\ dirty = FALSE /\ moved = {} /\ runs = 0 /\ edits = 0
    /\ cpath = <<>> /\ cres = NotClassified
    /\ cons = NoCons /\ walk = NoWalk
    /\ AuxIdle

(***************************************************************************)
(* Edits of the file tree between runs (the tree of the first run is the   *)
(* initial one).                                                           *)
(***************************************************************************)
Quiet == pc = "idle" /\ runs > 0

\* some file on disk has the path with identity key k
OnDisk(k) == \E i \in DOMAIN disk : Key(i) = k

CreateFile ==
    /\ Quiet /\ edits < MaxEdits
    /\ \E i \in BaseIds \ DOMAIN disk, st \in Stats :
          /\ ~OnDisk(Key(i))
          /\ disk' = (i :> st) @@ disk
    /\ edits' = edits + 1 /\ dirty' = TRUE
    /\ UNCHANGED <<dbvars, runvars, extracted, unchanged, backfilled, revived,
                   prev, moved, runs, clsvars, sidevars, auxvars>>

ModifyFile ==
    /\ Quiet /\ edits < MaxEdits
    /\ \E i \in DOMAIN disk, st \in Stats :
          /\ st # disk[i]
          /\ disk' = [disk EXCEPT ![i] = st]
    /\ edits' = edits + 1 /\ dirty' = TRUE
    /\ UNCHANGED <<dbvars, runvars, extracted, unchanged, backfilled, revived,
                   prev, moved, runs, clsvars, sidevars, auxvars>>

RemoveFile ==
    /\ Quiet /\ edits < MaxEdits
    /\ \E i \in DOMAIN disk : disk' = [j \in DOMAIN disk \ {i} |-> disk[j]]
    /\ edits' = edits + 1 /\ dirty' = TRUE
    /\ UNCHANGED <<dbvars, runvars, extracted, unchanged, backfilled, revived,
                   prev, moved, runs, clsvars, sidevars, auxvars>>

\* a file is renamed or moved to a free path; size and mtime stay
RenameFile ==
    /\ Quiet /\ edits < MaxEdits
    /\ \E i \in DOMAIN disk, j \in FileIds \ DOMAIN disk :
          /\ \A m \in DOMAIN disk \ {i} : Key(m) # Key(j)
          /\ disk' = (j :> disk[i]) @@ [m \in DOMAIN disk \ {i} |-> disk[m]]
          /\ moved' = moved \cup {<<i, j>>}
    /\ edits' = edits + 1 /\ dirty' = TRUE
    /\ UNCHANGED <<dbvars, runvars, extracted, unchanged, backfilled, revived,
                   prev, runs, clsvars, sidevars, auxvars>>

(***************************************************************************)
(* main(), lines 537-603: command line, ensure_schema, start of the walk.  *)
(***************************************************************************)
\* lines 569-573
ScanRoots(a) == IF a.quotes_only THEN quotes_roots ELSE roots \o quotes_roots

\* walk_files over an error-free tree: the existing files under the roots
Walk(a) ==
    SelectSeq([i \in FileIds |-> i],
              LAMBDA i : /\ i \in DOMAIN disk
                         /\ \E r \in 1..Len(ScanRoots(a)) :
                               IsUnder(Tree[i], ScanRoots(a)[r]))

\* ensure_schema: --rebuild-fts drops and recreates fts_files
ensure_schema(fts_t, rebuild_fts) == IF rebuild_fts THEN {} ELSE fts_t

StartRun(cmds, max_runs) ==
    /\ pc = "idle" /\ runs < max_runs
    /\ \E a \in cmds :
          /\ args' = [a EXCEPT !.no_delete = a.no_delete \/ a.quotes_only]
          /\ fts' = ensure_schema(fts, a.rebuild_fts)
          /\ committed' = [files |-> files, jobs |-> jobs,
                           fts |-> ensure_schema(fts, a.rebuild_fts)]
          /\ pending' = Walk(a)
          /\ pc' = IF Walk(a) = <<>> THEN "tail" ELSE "scan"
    /\ prev' = [valid |-> runs > 0, args |-> args, files |-> files,
                jobs |-> jobs, fts |-> fts, same_tree |-> ~dirty]
    /\ total_scanned' = 0 /\ seen_hashes' = {} /\ batch' = <<>>
    /\ fts_batch' = <<>> /\ per_job_seen_roots' = EmptyFcn
    /\ extracted' = {} /\ unchanged' = {} /\ backfilled' = {} /\ revived' = {}
    /\ dirty' = FALSE /\ runs' = runs + 1
    /\ UNCHANGED <<disk, files, jobs, moved, edits, clsvars, sidevars, auxvars>>

(***************************************************************************)
(* main(), lines 605-712: one iteration of the loop over walk_files.       *)
(***************************************************************************)
HasFts(fts_t, fh) == \E e \in fts_t : e.file_hash16 = fh

FtsRow(path, job_id, st) ==
    [content |-> FtsContent(path, job_id, st), file_hash16 |-> file_hash16(path)]

Reads(path, job_id) ==
    IF ParsesPdf(path, job_id) \/ ParsesOffice(path)
    THEN {file_hash16(path)} ELSE {}

\* line 607-608: the row limit stops the loop
LimitBreak ==
    /\ pc = "scan" /\ pending # <<>>
    /\ args.limit # 0 /\ total_scanned + 1 > args.limit
    /\ total_scanned' = total_scanned + 1
    /\ pc' = "tail" /\ pending' = <<>>
    /\ UNCHANGED <<disk, dbvars, args, seen_hashes, batch, fts_batch,
                   per_job_seen_roots, obsvars, clsvars, sidevars, auxvars>>

\* lines 611-642: ignored extension or directory, no job, out of year
SkipFile ==
    /\ pc = "scan" /\ pending # <<>>
    /\ ~(args.limit # 0 /\ total_scanned + 1 > args.limit)
    /\ LET path == Tree[Head(pending)]
       IN  Ignored(path) \/ Classify(path, args).outcome # "ok"
    /\ total_scanned' = total_scanned + 1
    /\ pending' = Tail(pending)
    /\ pc' = IF Tail(pending) = <<>> THEN "tail" ELSE "scan"
    /\ UNCHANGED <<disk, dbvars, args, seen_hashes, batch, fts_batch,
                   per_job_seen_roots, obsvars, clsvars, sidevars, auxvars>>

\* lines 657-678: the unchanged fast path with the FTS backfill
UnchangedFile ==
    /\ pc = "scan" /\ pending # <<>>
    /\ ~(args.limit # 0 /\ total_scanned + 1 > args.limit)
    /\ \E path \in {Tree[Head(pending)]}, st \in {disk[Head(pending)]} :
       \E c \in {Classify(path, args)}, fh \in {file_hash16(path)} :
       \E fill \in {~args.dry_run /\ ~HasFts(fts, fh)} :
       \E fb \in {IF fill THEN Append(fts_batch, FtsRow(path, c.job_id, st))
                  ELSE fts_batch} :
       \E flush \in {fill /\ Len(fb) >= FlushThreshold} :
       \E new_fts \in {IF flush THEN upsert_fts_rows(fts, fb) ELSE fts} :
           /\ ~Ignored(path) /\ c.outcome = "ok"
           /\ fh \in DOMAIN files
           /\ IsUnchanged(files[fh], st[1], utc_iso(st[2]))
           /\ fts' = new_fts
           /\ committed' = IF flush
                           THEN [files |-> files, jobs |-> jobs, fts |-> new_fts]
                           ELSE committed
           /\ fts_batch' = IF flush THEN <<>> ELSE fb
           /\ seen_hashes' = SeenUnchanged(seen_hashes, fh)
           /\ unchanged' = unchanged \cup {fh}
           /\ backfilled' = IF fill THEN backfilled \cup {fh} ELSE backfilled
           /\ extracted' = IF fill THEN extracted \cup Reads(path, c.job_id)
                           ELSE extracted
           /\ revived' = IF files[fh].deleted = 1 THEN revived \cup {fh}
                         ELSE revived
    /\ total_scanned' = total_scanned + 1
    /\ pending' = Tail(pending)
    /\ pc' = IF Tail(pending) = <<>> THEN "tail" ELSE "scan"
    /\ UNCHANGED <<disk, files, jobs, args, batch, per_job_seen_roots,
                   prev, dirty, moved, runs, edits, clsvars, sidevars, auxvars>>

\* lines 680-712: a new or changed file is queued, the batch flushed when full
IndexFile ==
    /\ pc = "scan" /\ pending # <<>>
    /\ ~(args.limit # 0 /\ total_scanned + 1 > args.limit)
    /\ \E path \in {Tree[Head(pending)]}, st \in {disk[Head(pending)]} :
       \E c \in {Classify(path, args)}, fh \in {file_hash16(path)} :
       \E first \in {c.job_id \notin DOMAIN per_job_seen_roots} :
       \E root \in {Names(SubSeq(path, 1, c.job_root))} :
       \E jb \in {IF first /\ ~args.dry_run
                  THEN ensure_job(jobs, c.job_id, root, c.jy) ELSE jobs} :
       \E b \in {Append(batch, FileRow(path, c, st))} :
       \E fb \in {IF ~args.dry_run
                  THEN Append(fts_batch, FtsRow(path, c.job_id, st))
                  ELSE fts_batch} :
       \E flush \in {Len(b) >= FlushThreshold /\ ~args.dry_run} :
       \E new_files \in {IF flush THEN upsert_files(files, b) ELSE files} :
       \E new_fts \in {IF flush THEN upsert_fts_rows(fts, fb) ELSE fts} :
           /\ ~Ignored(path) /\ c.outcome = "ok"
           /\ ~(fh \in DOMAIN files
                /\ IsUnchanged(files[fh], st[1], utc_iso(st[2])))
           /\ per_job_seen_roots' =
                 IF first THEN (c.job_id :> root) @@ per_job_seen_roots
                 ELSE per_job_seen_roots
           /\ jobs' = jb
           /\ files' = new_files
           /\ fts' = new_fts
           /\ committed' = IF flush
                           THEN [files |-> new_files, jobs |-> jb, fts |-> new_fts]
                           ELSE committed
           /\ batch' = IF flush THEN <<>> ELSE b
           /\ fts_batch' = IF flush THEN <<>> ELSE fb
           /\ seen_hashes' = seen_hashes \cup {fh}
           /\ extracted' = extracted \cup Reads(path, c.job_id)
           /\ revived' = IF fh \in DOMAIN files /\ files[fh].deleted = 1
                         THEN revived \cup {fh} ELSE revived
    /\ total_scanned' = total_scanned + 1
    /\ pending' = Tail(pending)
    /\ pc' = IF Tail(pending) = <<>> THEN "tail" ELSE "scan"
    /\ UNCHANGED <<disk, args, unchanged, backfilled, prev, dirty, moved, runs,
                   edits, clsvars, sidevars, auxvars>>

(***************************************************************************)
(* main(), lines 714-731: tail flush, delete pass, rollup, cleanup.        *)
(***************************************************************************)
\* lines 715-717
TailFlush ==
    /\ pc = "tail"
    /\ LET flush == batch # <<>> /\ ~args.dry_run
       IN  /\ files' = IF flush THEN upsert_files(files, batch) ELSE files
           /\ fts' = IF flush THEN upsert_fts_rows(fts, fts_batch) ELSE fts
           /\ committed' = IF flush
                           THEN [files |-> upsert_files(files, batch),
                                 jobs |-> jobs,
                                 fts |-> upsert_fts_rows(fts, fts_batch)]
                           ELSE committed
           /\ batch' = IF flush THEN <<>> ELSE batch
           /\ fts_batch' = IF flush THEN <<>> ELSE fts_batch
    /\ pc' = "delete"
    /\ UNCHANGED <<disk, jobs, args, pending, total_scanned, seen_hashes,
                   per_job_seen_roots, obsvars, clsvars, sidevars, auxvars>>

\* lines 720-723
DeletePass ==
    /\ pc = "delete"
    /\ files' = IF DeletePassEnabled(args)
                THEN mark_deleted_missing(files, jobs, seen_hashes,
                                          args.year_min, args.year_max)
                ELSE files
    /\ pc' = "rollup"
    /\ UNCHANGED <<disk, jobs, fts, committed, args, pending, total_scanned,
                   seen_hashes, batch, fts_batch, per_job_seen_roots, obsvars,
                   clsvars, sidevars, auxvars>>

\* lines 726-728
Rollup ==
    /\ pc = "rollup"
    /\ jobs' = IF ~args.dry_run
               THEN RollupAll(jobs, files, DOMAIN per_job_seen_roots)
               ELSE jobs
    /\ pc' = "cleanup"
    /\ UNCHANGED <<disk, files, fts, committed, args, pending, total_scanned,
                   seen_hashes, batch, fts_batch, per_job_seen_roots, obsvars,
                   clsvars, sidevars, auxvars>>

\* lines 730-731 and 517-534: cleanup_old_quote_versions commits; the run ends
Cleanup ==
    /\ pc = "cleanup"
    /\ fts' = IF ~args.dry_run THEN cleanup_old_quote_versions(fts, files)
              ELSE fts
    /\ committed' = IF ~args.dry_run
                    THEN [files |-> files, jobs |-> jobs,
                          fts |-> cleanup_old_quote_versions(fts, files)]
                    ELSE committed
    /\ pc' = "done"
    /\ UNCHANGED <<disk, files, jobs, args, pending, total_scanned,
                   seen_hashes, batch, fts_batch, per_job_seen_roots, obsvars,
                   clsvars, sidevars, auxvars>>

\* the process exits; its batches and counters are gone
Exit ==
    /\ pc = "done"
    /\ pc' = "idle" /\ pending' = <<>> /\ total_scanned' = 0
    /\ seen_hashes' = {} /\ batch' = <<>> /\ fts_batch' = <<>>
    /\ per_job_seen_roots' = EmptyFcn
    /\ extracted' = {} /\ unchanged' = {} /\ backfilled' = {} /\ revived' = {}
    /\ prev' = NoPrev /\ moved' = {}
    /\ UNCHANGED <<disk, dbvars, args, dirty, runs, edits, clsvars, sidevars, auxvars>>

\* runs with any command line
Start == StartRun(ArgSet, MaxRuns)

Next ==
    \/ CreateFile \/ ModifyFile \/ RemoveFile
    \/ Start
    \/ LimitBreak \/ SkipFile \/ UnchangedFile \/ IndexFile
    \/ TailFlush \/ DeletePass \/ Rollup \/ Cleanup \/ Exit

Spec == Init /\ [][Next]_vars

\* complete scans only, one run more
StartFull == StartRun(FullArgs, MaxFullRuns)

NextFull ==
    \/ CreateFile \/ ModifyFile \/ RemoveFile
    \/ StartFull
    \/ SkipFile \/ UnchangedFile \/ IndexFile
    \/ TailFlush \/ DeletePass \/ Rollup \/ Cleanup \/ Exit

SpecFull == Init /\ [][NextFull]_vars

\* runs over a tree whose files are renamed: the default run and --no-delete
RenameArgs ==
    {Cmd(0, FALSE, FALSE, FALSE, FALSE, 2015, 2025),
     Cmd(0, FALSE, TRUE,  FALSE, FALSE, 2015, 2025)}

StartRename == StartRun(RenameArgs, MaxRenameRuns)

NextRename ==
    \/ RenameFile
    \/ StartRename
    \/ UnchangedFile \/ IndexFile
    \/ TailFlush \/ DeletePass \/ Rollup \/ Cleanup \/ Exit

SpecRename == Init /\ [][NextRename]_vars

TypeOK ==
    /\ pc \in {"idle", "scan", "tail", "delete", "rollup", "cleanup", "done"}
    /\ DOMAIN disk \subseteq FileIds
    /\ DOMAIN files \subseteq Keys
    /\ Len(batch) <= Len(Tree)

(***************************************************************************)
(* Classification alone: lines 623-651 applied to one path.                *)
(***************************************************************************)
\* directories below the root of a classified path
MaxDepth == 3

DirNames ==
    {Dir("Drawings", "drawings", {"drawings"}),
     QuotesDir,
     JobDir("101-23 Tank", "101-23 tank", <<101, 23>>, {"101", "23", "tank"}),
     JobDir("202-24 Sub", "202-24 sub", <<202, 24>>, {"202", "24", "sub"}),
     YearDir("2024", 2024),
     YearDir("2010", 2010),
     YearDir("2100", 2100),
     QDir("Q1234.2", "q1234.2", 1234, 2, {"q1234", "2"}),
     QDir("Q5678 Acme", "q5678 acme", 5678, Null, {"q5678", "acme"})}

FileNames ==
    {File("doc.pdf", "doc.pdf", ".pdf", {"doc", "pdf"}),
     QFile("Q4321.3.pdf", "q4321.3.pdf", ".pdf", 4321, 3, {"q4321", "3", "pdf"}),
     JobFile("303-22 report.pdf", "303-22 report.pdf", ".pdf", <<303, 22>>,
             {"303", "22", "report", "pdf"})}

DirSeqs == UNION {[1..n -> DirNames] : n \in 0..MaxDepth}

ClassifyPaths ==
    {<<DriveP, top>> \o mid \o <<f>> :
        top \in {JobsDir, QuotesDir}, mid \in DirSeqs, f \in FileNames}

InitClassify ==
    /\ disk = EmptyFcn
    /\ files = EmptyFcn /\ jobs = EmptyFcn /\ fts = {}
    /\ committed = [files |-> EmptyFcn, jobs |-> EmptyFcn, fts |-> {}]
    /\ pc = "idle" /\ args = NoArgs /\ pending = <<>> /\ total_scanned = 0
    /\ seen_hashes = {} /\ batch = <<>> /\ fts_batch = <<>>
    /\ per_job_seen_roots = EmptyFcn
    /\ extracted = {} /\ unchanged = {} /\ backfilled = {} /\ revived = {}
    /\ prev = NoPrev
    /\ dirty = FALSE /\ moved = {} /\ runs = 0 /\ edits = 0
    /\ cpath \in ClassifyPaths /\ cres = NotClassified
    /\ cons = NoCons /\ walk = NoWalk
    /\ AuxIdle

ClassifyPath ==
    /\ cres.outcome = "pending"
    /\ cres' = Classify(cpath, args)
    /\ UNCHANGED <<disk, dbvars, runvars, obsvars, cpath, sidevars, auxvars>>

NextClassify == ClassifyPath

SpecClassify == InitClassify /\ [][NextClassify]_vars

(***************************************************************************)
(* The Jobs table alone: its two writers, ensure_job (line 684) and        *)
(* rollup_job_stats (line 728), applied in any order to the sightings of a *)
(* job and of a quote number kept under two year folders.                  *)
(***************************************************************************)
\* <<job_id, str(job_root), jy>> of the calls of ensure_job
Sightings ==
    {<<JobId(<<101, 23>>), <<"P:", "JOBS", "101-23 Tank">>, 2023>>,
     <<JobId(<<202, 24>>), <<"P:", "JOBS", "202-24 Sub">>, 2024>>,
     <<QuoteId(1234, 24), <<"P:", "QUOTES", "2024", "Q1234.2">>, 2024>>,
     <<QuoteId(1234, 24), <<"P:", "QUOTES", "1924", "Q1234">>, 1924>>}

\* a row written before the job_year column was added (lines 129-132)
LegacyRow(root_path) ==
    [root_path |-> root_path, job_year |-> Null,
     file_count_total |-> Null, byte_size_total |-> Null,
     last_modified_utc |-> Null, has_pdf |-> Null, has_dwg_dxf |-> Null,
     has_compress |-> Null, has_ame |-> Null]

InitJobs ==
    /\ disk = EmptyFcn
    /\ files = EmptyFcn /\ fts = {}
    /\ \E old \in SUBSET {s \in Sightings : s[3] # 1924} :
          jobs = [j \in {s[1] : s \in old} |->
                    LegacyRow((CHOOSE s \in old : s[1] = j)[2])]
    /\ committed = [files |-> EmptyFcn, jobs |-> jobs, fts |-> {}]
    /\ pc = "idle" /\ args = NoArgs /\ pending = <<>> /\ total_scanned = 0
    /\ seen_hashes = {} /\ batch = <<>> /\ fts_batch = <<>>
    /\ per_job_seen_roots = EmptyFcn
    /\ extracted = {} /\ unchanged = {} /\ backfilled = {} /\ revived = {}
    /\ prev = NoPrev
    /\ dirty = FALSE /\ moved = {} /\ runs = 0 /\ edits = 0
    /\ cpath = <<>> /\ cres = NotClassified
    /\ cons = NoCons /\ walk = NoWalk
    /\ AuxIdle

\* line 684: the first sighting of a job in a run
EnsureJobRow ==
    /\ \E s \in Sightings : jobs' = ensure_job(jobs, s[1], s[2], s[3])
    /\ UNCHANGED <<disk, files, fts, committed, runvars, obsvars, clsvars, sidevars, auxvars>>

\* line 728: the rollup of a job touched in a run
RollupJobRow ==
    /\ \E s \in Sightings : jobs' = rollup_job_stats(jobs, files, s[1])
    /\ UNCHANGED <<disk, files, fts, committed, runvars, obsvars, clsvars, sidevars, auxvars>>

NextJobs == EnsureJobRow \/ RollupJobRow

SpecJobs == InitJobs /\ [][NextJobs]_vars

(***************************************************************************)
(* Two indexer processes on one store: the scheduled run and the run the   *)
(* GUI starts (TankFinderGUI.py, App.refresh_index).  Each connects with   *)
(* connect_db and commits its write transactions; SQLite lets one          *)
(* connection at a time hold the write lock, from the first statement of a *)
(* transaction to its commit.                                              *)
(***************************************************************************)
InitTwoRuns ==
    /\ disk = EmptyFcn
    /\ files = EmptyFcn /\ jobs = EmptyFcn /\ fts = {}
    /\ committed = [files |-> EmptyFcn, jobs |-> EmptyFcn, fts |-> {}]
    /\ pc = "idle" /\ args = NoArgs /\ pending = <<>> /\ total_scanned = 0
    /\ seen_hashes = {} /\ batch = <<>> /\ fts_batch = <<>>
    /\ per_job_seen_roots = EmptyFcn
    /\ extracted = {} /\ unchanged = {} /\ backfilled = {} /\ revived = {}
    /\ prev = NoPrev
    /\ dirty = FALSE /\ moved = {} /\ runs = 0 /\ edits = 0
    /\ cpath = <<>> /\ cres = NotClassified
    /\ cons = NoCons /\ walk = NoWalk
    /\ AuxIdle

\* connect_db (indexer.py:113-119): sqlite3.connect opens the file read-write;
\* nothing tests for another process, neither here nor in refresh_index
connect_db(r) ==
    /\ cons.conn[r] = "none"
    /\ cons' = [cons EXCEPT !.conn[r] = "open"]
    /\ UNCHANGED <<disk, dbvars, runvars, obsvars, clsvars, walk, auxvars>>

\* the first INSERT / UPDATE / DELETE after a commit takes the write lock
BeginWrite(r) ==
    /\ cons.conn[r] = "open" /\ cons.lock = "none"
    /\ cons.txns[r] < MaxTxns
    /\ cons' = [cons EXCEPT !.lock = r]
    /\ UNCHANGED <<disk, dbvars, runvars, obsvars, clsvars, walk, auxvars>>

\* con.commit() (lines 158, 534, 676, 711, 716)
Commit(r) ==
    /\ cons.lock = r
    /\ cons' = [cons EXCEPT !.lock = "none", !.txns[r] = @ + 1,
                            !.wlog = Append(@, r)]
    /\ UNCHANGED <<disk, dbvars, runvars, obsvars, clsvars, walk, auxvars>>

\* a statement waits for the lock of the other process past the timeout of
\* sqlite3.connect: OperationalError, which main() does not catch
Busy(r) ==
    /\ cons.conn[r] = "open" /\ cons.lock \notin {"none", r}
    /\ cons.txns[r] < MaxTxns
    /\ cons' = [cons EXCEPT !.conn[r] = "failed"]
    /\ UNCHANGED <<disk, dbvars, runvars, obsvars, clsvars, walk, auxvars>>

\* main() returns, the process ends
EndRun(r) ==
    /\ cons.conn[r] = "open" /\ cons.lock # r
    /\ cons' = [cons EXCEPT !.conn[r] = "ended"]
    /\ UNCHANGED <<disk, dbvars, runvars, obsvars, clsvars, walk, auxvars>>

Connect   == \E r \in Runs : connect_db(r)
Begin     == \E r \in Runs : BeginWrite(r)
CommitTxn == \E r \in Runs : Commit(r)
LockedOut == \E r \in Runs : Busy(r)
End       == \E r \in Runs : EndRun(r)

NextTwoRuns == Connect \/ Begin \/ CommitTxn \/ LockedOut \/ End

SpecTwoRuns == InitTwoRuns /\ [][NextTwoRuns]_vars

(***************************************************************************)
(* walk_files (lines 389-446) over a tree whose directories can fail to    *)
(* enumerate: os.scandir raises PermissionError, FileNotFoundError or      *)
(* another OSError at any call.  The loop of main() counts each yielded    *)
(* file (line 606).                                                        *)
(***************************************************************************)
\* the directories of the tree below the drive
WalkDirs ==
    UNION {{SubSeq(Tree[i], 1, k) : k \in 2..(Len(Tree[i]) - 1)} : i \in BaseIds}

\* the entries of directory d: its sub-directories, its files
ChildDirs(d) ==
    {c \in WalkDirs : Len(c) = Len(d) + 1 /\ SubSeq(c, 1, Len(d)) = d}

\* symbolic links to directories: in a quote folder a link back to the quote
\* root, in a job folder a link to the folder itself
LinkSeg == Dir("up", "up", {"up"})

SymLinks ==
    {<<DriveP, QuotesDir, YearDir("2024", 2024),
       QDir("Q1234.1", "q1234.1", 1234, 1, {"q1234", "1"}), LinkSeg>>,
     <<DriveP, JobsDir,
       JobDir("101-23 Tank", "101-23 tank", <<101, 23>>, {"101", "23", "tank"}),
       LinkSeg>>}

\* what os.scandir(d) lists besides the files
Entries(d) ==
    ChildDirs(d)
        \cup {l \in SymLinks : SubSeq(l, 1, Len(l) - 1) = d}

\* a mutant: a failed enumeration is retried once more
MayRetryTwice(attempt) == attempt <= 1

\* lines 415-419, for attempt in (0,1): a failure of the first attempt is
\* retried, a failure of the second returns None
MayRetry(attempt) == attempt = 0

\* DirEntry.is_dir(follow_symlinks=False): a link to a directory is not one
is_dir(e) == e \notin SymLinks

FilesIn(d) ==
    {i \in DOMAIN disk : SubSeq(Tree[i], 1, Len(Tree[i]) - 1) = d}

\* push_children_year_dirs: year_dir_regex ^\d{4}$, year_min 1900, year_max 2100
YearChildDirs(d) ==
    {c \in Entries(d) : /\ is_dir(c)
                         /\ c[Len(c)].yyyy # 0 /\ 1900 <= c[Len(c)].yyyy
                         /\ c[Len(c)].yyyy <= 2100}

\* the orders in which os.scandir can list a set of entries
Orders(S) ==
    {f \in [1..Cardinality(S) -> S] :
        \A a, b \in 1..Cardinality(S) : a # b => f[a] # f[b]}

\* Path(root).exists(): the directory named by a configured root, if any
RootDir(root) == {d \in WalkDirs : Names(d) = root}

\* counters of main() (lines 597-601) that the walk advances
Counters == [total_scanned |-> total_scanned]

InitWalk ==
    /\ disk = [i \in BaseIds |-> <<1, 2>>]
    /\ files = EmptyFcn /\ jobs = EmptyFcn /\ fts = {}
    /\ committed = [files |-> EmptyFcn, jobs |-> EmptyFcn, fts |-> {}]
    /\ pc = "idle" /\ args = NoArgs /\ pending = <<>> /\ total_scanned = 0
    /\ seen_hashes = {} /\ batch = <<>> /\ fts_batch = <<>>
    /\ per_job_seen_roots = EmptyFcn
    /\ extracted = {} /\ unchanged = {} /\ backfilled = {} /\ revived = {}
    /\ prev = NoPrev
    /\ dirty = FALSE /\ moved = {} /\ runs = 0 /\ edits = 0
    /\ cpath = <<>> /\ cres = NotClassified
    /\ cons = NoCons
    /\ AuxIdle
    /\ \E yo \in BOOLEAN :
          walk = [NoWalk EXCEPT !.roots = ScanRoots(NoArgs), !.year_only = yo]

WalkIdle == walk.d = <<>> /\ walk.stack = <<>> /\ walk.roots # <<>>

\* lines 422-427, only_year_dirs_under_roots off: the root is pushed
NextRoot ==
    /\ WalkIdle /\ ~walk.year_only
    /\ walk' = [walk EXCEPT
                   !.roots = Tail(@), !.popped = {},
                   !.stack = IF RootDir(Head(walk.roots)) = {} THEN <<>>
                             ELSE <<CHOOSE d \in RootDir(Head(walk.roots)) : TRUE>>]
    /\ UNCHANGED <<disk, dbvars, runvars, obsvars, clsvars, cons, auxvars>>

\* lines 399-410 and 424: the year directories of the root are pushed
YearDirsOk ==
    /\ WalkIdle /\ walk.year_only
    /\ \E o \in Orders(UNION {YearChildDirs(d) : d \in RootDir(Head(walk.roots))}) :
          walk' = [walk EXCEPT !.roots = Tail(@), !.stack = o, !.popped = {}]
    /\ UNCHANGED <<disk, dbvars, runvars, obsvars, clsvars, cons, auxvars>>

\* lines 411-412: os.scandir(rootp) raises, push_children_year_dirs returns
YearDirsFail ==
    /\ WalkIdle /\ walk.year_only
    /\ RootDir(Head(walk.roots)) # {}
    /\ walk' = [walk EXCEPT !.roots = Tail(@), !.popped = {},
                            !.skipped = @ \cup RootDir(Head(walk.roots))]
    /\ UNCHANGED <<disk, dbvars, runvars, obsvars, clsvars, cons, auxvars>>

\* line 429: d = stack.pop()
PopDir ==
    /\ walk.d = <<>> /\ walk.stack # <<>>
    /\ walk' = [walk EXCEPT !.d = walk.stack[Len(walk.stack)],
                            !.stack = SubSeq(@, 1, Len(@) - 1),
                            !.attempt = 0,
                            !.popped = @ \cup {walk.stack[Len(walk.stack)]}]
    /\ UNCHANGED <<disk, dbvars, runvars, obsvars, clsvars, cons, auxvars>>

\* lines 416 and 432-442: os.scandir(d) succeeds; the sub-directories are
\* pushed, the files yielded and counted by the loop of main()
ScandirOk ==
    /\ walk.d # <<>>
    /\ \E o \in Orders({e \in Entries(walk.d) : is_dir(e)}),
          fo \in Orders(FilesIn(walk.d)) :
          walk' = [walk EXCEPT !.stack = @ \o o, !.out = @ \o fo,
                               !.d = <<>>, !.attempt = 0]
    /\ total_scanned' = total_scanned + Cardinality(FilesIn(walk.d))
    /\ UNCHANGED <<disk, dbvars, pc, args, pending, seen_hashes, batch,
                   fts_batch, per_job_seen_roots, obsvars, clsvars, cons, auxvars>>

\* lines 417-418: the first attempt raises; sleep, second attempt
ScandirRetry ==
    /\ walk.d # <<>> /\ MayRetry(walk.attempt)
    /\ walk' = [walk EXCEPT !.attempt = @ + 1]
    /\ UNCHANGED <<disk, dbvars, runvars, obsvars, clsvars, cons, auxvars>>

\* lines 419 and 431: the second attempt raises; scandir_safe returns None
\* and the loop goes on to the next directory
ScandirGiveUp ==
    /\ walk.d # <<>> /\ ~MayRetry(walk.attempt)
    /\ walk' = [walk EXCEPT !.skipped = @ \cup {walk.d}, !.d = <<>>,
                            !.attempt = 0]
    /\ UNCHANGED <<disk, dbvars, runvars, obsvars, clsvars, cons, auxvars>>

NextWalk ==
    \/ NextRoot \/ YearDirsOk \/ YearDirsFail
    \/ PopDir \/ ScandirOk \/ ScandirRetry \/ ScandirGiveUp

SpecWalk == InitWalk /\ [][NextWalk]_vars

\* the generator is driven by the loop of main(), which asks for the next
\* file until the generator is exhausted: a step that can be taken is taken
SpecWalkFair == InitWalk /\ [][NextWalk]_vars /\ WF_vars(NextWalk)

(***************************************************************************)
(* The searchable text of one file (lines 687-706): name tokens, then the  *)
(* body extract_pdf_text or extract_office_text returns.  A text is a      *)
(* sequence of characters.                                                 *)
(***************************************************************************)
Chars == {"a", " "}

Texts == UNION {[1..n -> Chars] : n \in 0..MaxText}

\* s[:n]
Take(s, n) == SubSeq(s, 1, IF Len(s) < n THEN Len(s) ELSE n)

\* str.strip()
RECURSIVE Strip(_)
Strip(s) ==
    IF s = <<>> THEN s
    ELSE IF Head(s) = " " THEN Strip(Tail(s))
    ELSE IF s[Len(s)] = " " THEN Strip(SubSeq(s, 1, Len(s) - 1))
    ELSE s

\* " ".join(s.split()), r the text joined so far
RECURSIVE SplitJoin(_, _)
SplitJoin(s, r) ==
    IF s = <<>> THEN Strip(r)
    ELSE IF Head(s) = " " /\ (r = <<>> \/ r[Len(r)] = " ")
         THEN SplitJoin(Tail(s), r)
    ELSE SplitJoin(Tail(s), Append(r, Head(s)))

\* extract_pdf_text: the text of the pages, whitespace collapsed, cut
extract_pdf_text(raw, max_chars) == Take(SplitJoin(raw, <<>>), max_chars)

\* read_text_file_safe: f.read(max_chars)
read_text_file_safe(raw, max_chars) == Take(raw, max_chars)

\* extract_office_text for the extensions read as plain text
extract_office_text(ext, raw, enabled, max_chars) ==
    IF ~enabled THEN <<>>
    ELSE IF ext \in {".txt", ".md", ".log", ".xml", ".html", ".htm"}
         THEN read_text_file_safe(raw, max_chars)
    ELSE <<>>

\* lines 704 and 706: (fts_content + " " + txt).strip() when txt is not empty
AddBody(fts_content, txt) ==
    IF txt # <<>> THEN Strip(fts_content \o <<" ">> \o txt) ELSE fts_content

\* " ".join(name_tokens[:64]) of the files of the model
TokenTexts == {<<"a">>, <<"a", " ", "a">>}

InitText ==
    /\ disk = EmptyFcn
    /\ files = EmptyFcn /\ jobs = EmptyFcn /\ fts = {}
    /\ committed = [files |-> EmptyFcn, jobs |-> EmptyFcn, fts |-> {}]
    /\ pc = "idle" /\ args = NoArgs /\ pending = <<>> /\ total_scanned = 0
    /\ seen_hashes = {} /\ batch = <<>> /\ fts_batch = <<>>
    /\ per_job_seen_roots = EmptyFcn
    /\ extracted = {} /\ unchanged = {} /\ backfilled = {} /\ revived = {}
    /\ prev = NoPrev
    /\ dirty = FALSE /\ moved = {} /\ runs = 0 /\ edits = 0
    /\ cpath = <<>> /\ cres = NotClassified
    /\ cons = NoCons /\ walk = NoWalk
    /\ killed = "no" /\ tally = NoTally
    /\ \E t \in TokenTexts, e \in {".pdf", ".txt", ".dwg"}, r \in Texts,
          p, o \in BOOLEAN :
          doc = [tokens |-> t, ext |-> e, raw |-> r, pdf_on |-> p,
                 office_on |-> o, content |-> <<>>, built |-> FALSE]

\* lines 698-706
BuildContent ==
    /\ ~doc.built
    /\ \E txtc \in {IF doc.pdf_on /\ doc.ext = ".pdf"
                    THEN extract_pdf_text(doc.raw, MaxChars) ELSE <<>>} :
       \E office_txt \in {extract_office_text(doc.ext, doc.raw, doc.office_on,
                                              MaxChars)} :
          doc' = [doc EXCEPT
                     !.content = AddBody(AddBody(doc.tokens, txtc), office_txt),
                     !.built = TRUE]
    /\ UNCHANGED <<disk, dbvars, runvars, obsvars, clsvars, sidevars, killed,
                   tally>>

NextText == BuildContent

SpecText == InitText /\ [][NextText]_vars

(***************************************************************************)
(* main() over a tree with unreadable entries: a directory whose           *)
(* enumeration fails is skipped by walk_files (lines 411-412, 414-420,     *)
(* 431) and none of its files is yielded; a file whose stat() raises is    *)
(* skipped by the loop (lines 616-619).                                    *)
(***************************************************************************)
\* file i lies in directory d or below it
Below(i, d) == Len(Tree[i]) > Len(d) /\ SubSeq(Tree[i], 1, Len(d)) = d

InSeq(x, s) == \E n \in 1..Len(s) : s[n] = x

\* complete scans: the default run and a run with a narrower year range
SkipArgs ==
    {Cmd(0, FALSE, FALSE, FALSE, FALSE, 2015, 2025),
     Cmd(0, FALSE, FALSE, FALSE, FALSE, 2024, 2025)}

StartSkips == StartRun(SkipArgs, MaxSkipRuns)

\* lines 411-412 / 419 and 431: the enumeration of an ancestor directory of
\* the next file fails before any of its files was yielded; the generator
\* goes on with the next directory of the stack
DirSkipped ==
    /\ pc = "scan" /\ pending # <<>>
    /\ \E n \in 2..(Len(Tree[Head(pending)]) - 1) :
       \E d \in {SubSeq(Tree[Head(pending)], 1, n)} :
       \E rest \in {SelectSeq(pending, LAMBDA i : ~Below(i, d))} :
          /\ \A i \in DOMAIN disk :
                (InSeq(i, Walk(args)) /\ Below(i, d)) => InSeq(i, pending)
          /\ pending' = rest
          /\ pc' = IF rest = <<>> THEN "tail" ELSE "scan"
    /\ UNCHANGED <<disk, dbvars, args, total_scanned, seen_hashes, batch,
                   fts_batch, per_job_seen_roots, obsvars, clsvars, sidevars,
                   auxvars>>

\* lines 606-619: the file is counted, passes the cheap skips, p.stat() raises
StatFails ==
    /\ pc = "scan" /\ pending # <<>>
    /\ ~(args.limit # 0 /\ total_scanned + 1 > args.limit)
    /\ ~Ignored(Tree[Head(pending)])
    /\ total_scanned' = total_scanned + 1
    /\ pending' = Tail(pending)
    /\ pc' = IF Tail(pending) = <<>> THEN "tail" ELSE "scan"
    /\ UNCHANGED <<disk, dbvars, args, seen_hashes, batch, fts_batch,
                   per_job_seen_roots, obsvars, clsvars, sidevars, auxvars>>

NextSkips ==
    \/ StartSkips
    \/ DirSkipped \/ StatFails
    \/ SkipFile \/ UnchangedFile \/ IndexFile
    \/ TailFlush \/ DeletePass \/ Rollup \/ Cleanup \/ Exit

SpecSkips == Init /\ [][NextSkips]_vars

(***************************************************************************)
(* main() terminated from outside: the process ends at any point of the    *)
(* loop or of the steps after it, up to the rollup; what it had not        *)
(* committed is rolled back by SQLite, what it had committed stays.        *)
(***************************************************************************)
KillArgs == {Cmd(0, FALSE, FALSE, FALSE, FALSE, 2015, 2025)}

StartKill == StartRun(KillArgs, MaxKillRuns)

\* a flush of this run has committed rows (lines 676, 711, 716)
FlushCommitted ==
    committed.files # prev.files \/ committed.jobs # prev.jobs

Kill ==
    /\ pc \in {"scan", "tail", "delete", "rollup"}
    /\ files' = committed.files /\ jobs' = committed.jobs
    /\ fts' = committed.fts
    /\ killed' = IF FlushCommitted THEN "flushed" ELSE "early"
    /\ pc' = "idle" /\ pending' = <<>> /\ total_scanned' = 0
    /\ seen_hashes' = {} /\ batch' = <<>> /\ fts_batch' = <<>>
    /\ per_job_seen_roots' = EmptyFcn
    /\ extracted' = {} /\ unchanged' = {} /\ backfilled' = {} /\ revived' = {}
    /\ prev' = NoPrev /\ moved' = {}
    /\ UNCHANGED <<disk, committed, args, dirty, runs, edits, clsvars,
                   sidevars, doc, tally>>

NextKill ==
    \/ StartKill
    \/ Kill
    \/ UnchangedFile \/ IndexFile
    \/ TailFlush \/ DeletePass \/ Rollup \/ Cleanup \/ Exit

SpecKill == Init /\ [][NextKill]_vars

(***************************************************************************)
(* The counters of main() alone (lines 597-696): the loop is fed files,    *)
(* each with the results of the tests the loop makes on it.                *)
(***************************************************************************)
ZeroCounters ==
    [total_scanned |-> 0, indexed |-> 0, fts_backfilled |-> 0,
     skipped_no_job |-> 0, skipped_unchanged |-> 0, skipped_out_of_year |-> 0,
     skipped_ignored_ext |-> 0, skipped_ignored_dir |-> 0]

\* counters[k] += 1
Bump(counters, k) == [counters EXCEPT ![k] = @ + 1]

\* a file as the loop sees it: ignored extension (611), ignored directory
\* (613), stat succeeds (617), a job id is resolved (634), the year gate is
\* passed (641), the row is unchanged (661), the entry is missing (664)
Fed(ie, id, st, jb, yr, un, bf) ==
    [ignored_ext |-> ie, ignored_dir |-> id, stat_ok |-> st, job |-> jb,
     in_year |-> yr, unchanged |-> un, backfill |-> bf]

FedFiles ==
    {Fed(TRUE,  FALSE, TRUE,  TRUE,  TRUE,  FALSE, FALSE),
     Fed(FALSE, TRUE,  TRUE,  TRUE,  TRUE,  FALSE, FALSE),
     Fed(TRUE,  FALSE, TRUE,  FALSE, TRUE,  FALSE, FALSE),
     Fed(FALSE, FALSE, FALSE, TRUE,  TRUE,  FALSE, FALSE),
     Fed(FALSE, FALSE, TRUE,  FALSE, TRUE,  FALSE, FALSE),
     Fed(FALSE, FALSE, TRUE,  TRUE,  FALSE, FALSE, FALSE),
     Fed(FALSE, FALSE, TRUE,  TRUE,  TRUE,  TRUE,  FALSE),
     Fed(FALSE, FALSE, TRUE,  TRUE,  TRUE,  TRUE,  TRUE),
     Fed(FALSE, FALSE, TRUE,  TRUE,  TRUE,  FALSE, FALSE)}

\* --limit of the run: none, or 2
FedLimits == {0, 2}

\* lines 611-696 for one file, after it was counted as scanned
CountOutcome(counters, f) ==
    IF f.ignored_ext THEN Bump(counters, "skipped_ignored_ext")
    ELSE IF f.ignored_dir THEN Bump(counters, "skipped_ignored_dir")
    ELSE IF ~f.stat_ok THEN counters
    ELSE IF ~f.job THEN Bump(counters, "skipped_no_job")
    ELSE IF ~f.in_year THEN Bump(counters, "skipped_out_of_year")
    ELSE IF f.unchanged
         THEN Bump(IF f.backfill THEN Bump(counters, "fts_backfilled")
                   ELSE counters,
                   "skipped_unchanged")
    ELSE Bump(counters, "indexed")

InitCount ==
    /\ disk = EmptyFcn
    /\ files = EmptyFcn /\ jobs = EmptyFcn /\ fts = {}
    /\ committed = [files |-> EmptyFcn, jobs |-> EmptyFcn, fts |-> {}]
    /\ pc = "idle" /\ args = NoArgs /\ pending = <<>> /\ total_scanned = 0
    /\ seen_hashes = {} /\ batch = <<>> /\ fts_batch = <<>>
    /\ per_job_seen_roots = EmptyFcn
    /\ extracted = {} /\ unchanged = {} /\ backfilled = {} /\ revived = {}
    /\ prev = NoPrev
    /\ dirty = FALSE /\ moved = {} /\ runs = 0 /\ edits = 0
    /\ cpath = <<>> /\ cres = NotClassified
    /\ cons = NoCons /\ walk = NoWalk
    /\ doc = NoDoc /\ killed = "no"
    /\ \E n \in 0..MaxFeed : \E fd \in [1..n -> FedFiles], l \in FedLimits :
          tally = [feed |-> fd, limit |-> l, stopped |-> FALSE,
                   counters |-> ZeroCounters]

\* lines 606-608: the file is counted, the row limit is passed, break
CountBreak ==
    /\ ~tally.stopped /\ tally.feed # <<>>
    /\ tally.limit # 0 /\ tally.counters.total_scanned + 1 > tally.limit
    /\ tally' = [tally EXCEPT !.counters = Bump(@, "total_scanned"),
                              !.stopped = TRUE]
    /\ UNCHANGED <<disk, dbvars, runvars, obsvars, clsvars, sidevars, doc,
                   killed>>

\* lines 606-696: the file is counted and handled
CountFile ==
    /\ ~tally.stopped /\ tally.feed # <<>>
    /\ ~(tally.limit # 0 /\ tally.counters.total_scanned + 1 > tally.limit)
    /\ tally' = [tally EXCEPT
                    !.counters = CountOutcome(Bump(@, "total_scanned"),
                                              Head(tally.feed)),
                    !.feed = Tail(@)]
    /\ UNCHANGED <<disk, dbvars, runvars, obsvars, clsvars, sidevars, doc,
                   killed>>

\* walk_files is exhausted, the loop ends; lines 733-738 report the counters
CountEnd ==
    /\ ~tally.stopped /\ tally.feed = <<>>
    /\ tally' = [tally EXCEPT !.stopped = TRUE]
    /\ UNCHANGED <<disk, dbvars, runvars, obsvars, clsvars, sidevars, doc,
                   killed>>

NextCount == CountBreak \/ CountFile \/ CountEnd

SpecCount == InitCount /\ [][NextCount]_vars

(***************************************************************************)
(* Properties.                                                             *)
(***************************************************************************)
\* a complete run: no row limit, not a dry run
CompleteRun(a) == a.limit = 0 /\ ~a.dry_run

ActiveRows(files_t) ==
    {files_t[k] : k \in {x \in DOMAIN files_t : files_t[x].deleted = 0}}

Aggregates(jobs_t) ==
    [j \in DOMAIN jobs_t |->
        [file_count_total  |-> jobs_t[j].file_count_total,
         byte_size_total   |-> jobs_t[j].byte_size_total,
         last_modified_utc |-> jobs_t[j].last_modified_utc,
         has_pdf      |-> jobs_t[j].has_pdf,
         has_dwg_dxf  |-> jobs_t[j].has_dwg_dxf,
         has_compress |-> jobs_t[j].has_compress,
         has_ame      |-> jobs_t[j].has_ame]]

\* the run that just ended repeats the complete run before it, with the same
\* command line, over the tree as that run left it
SecondRun ==
    /\ pc = "done" /\ prev.valid /\ prev.same_tree
    /\ CompleteRun(args) /\ CompleteRun(prev.args) /\ prev.args = args

\* C1: a second complete run with the same configuration over the unmodified
\* tree leaves the active Files rows and every Job's aggregates as the first
\* run left them.
C1_Idempotence ==
    SecondRun =>
        /\ ActiveRows(files) = ActiveRows(prev.files)
        /\ Aggregates(jobs) = Aggregates(prev.jobs)

\* C1 witness: a second run over a database with active and tombstoned rows
C1_Witness ==
    /\ SecondRun
    /\ \E k \in DOMAIN files : files[k].deleted = 1
    /\ \E k \in DOMAIN files : files[k].deleted = 0 /\ k \in unchanged

SoftDeletes ==
    \E k \in DOMAIN files :
        files[k].deleted = 0 /\ k \in DOMAIN files' /\ files'[k].deleted = 1

\* C3: a run with a non-zero row limit never changes a deleted flag from 0
\* to 1.
C3_PartialRunSafety == [][args.limit # 0 => ~SoftDeletes]_vars

\* C3 witness: a row-limited run has ended; a file it did not reach and a file
\* missing from disk both still have active rows
C3_Witness ==
    /\ pc = "done" /\ args.limit # 0 /\ ~args.dry_run
    /\ \E i \in {x \in FileIds : ~OnDisk(Key(x))} :
          Key(i) \in DOMAIN files /\ files[Key(i)].deleted = 0
    /\ \E i \in DOMAIN disk :
          /\ Key(i) \notin seen_hashes
          /\ Key(i) \in DOMAIN files /\ files[Key(i)].deleted = 0

\* C4: a quote-only run, a run with deletion suppressed and a dry run never
\* change a deleted flag from 0 to 1.
C4_ReconciliationGating ==
    [][(args.quotes_only \/ args.no_delete \/ args.dry_run) => ~SoftDeletes]_vars

\* C4 witness: a quote-only run has ended without sighting the file of a job
\* outside the quote roots, whose row is still active
C4_Witness ==
    /\ pc = "done" /\ args.quotes_only
    /\ \E i \in FileIds :
          /\ ~(\E r \in 1..Len(quotes_roots) : IsUnder(Tree[i], quotes_roots[r]))
          /\ Key(i) \notin seen_hashes
          /\ Key(i) \in DOMAIN files /\ files[Key(i)].deleted = 0

\* C5 (as claimed): no content is extracted in a run for a file whose row has
\* the same size and modification time.
C5_UnchangedFastPath == extracted \cap unchanged = {}

\* C6 (as claimed): when a non-dry run has ended, every unchanged file that
\* lacked a searchable-content entry and is not a superseded quote revision
\* has a committed entry, and its Files row is as before the run.
C6_Backfill ==
    (pc = "done" /\ ~args.dry_run) =>
        \A k \in backfilled :
            /\ k \in Superseded(files) \/ HasFts(committed.fts, k)
            /\ files[k] = prev.files[k]

\* C7 (as claimed): after a non-dry run every sighted file whose row had
\* deleted=1 has deleted=0.
C7_Revival ==
    (pc = "done" /\ ~args.dry_run) =>
        \A k \in revived : files[k].deleted = 0

\* an active quote PDF below another active PDF of the same quote
LowerRevision(k) ==
    /\ files[k].job_id.q /\ files[k].ext = ".pdf" /\ files[k].deleted = 0
    /\ \E m \in DOMAIN files :
          /\ files[m].job_id = files[k].job_id
          /\ files[m].ext = ".pdf" /\ files[m].deleted = 0
          /\ QVer(files[k]) < QVer(files[m])

\* C8: after a completed non-dry run no PDF below the maximum active revision
\* of its quote has a searchable-content entry; its Files row is committed and
\* active, and the cleanup step changes no Files row.
C8_RevisionRetention ==
    /\ [](pc = "done" /\ ~args.dry_run =>
            \A k \in DOMAIN files :
                LowerRevision(k) =>
                    /\ ~HasFts(fts, k) /\ ~HasFts(committed.fts, k)
                    /\ k \in DOMAIN committed.files
                    /\ committed.files[k].deleted = 0)
    /\ [][pc = "cleanup" => files' = files]_vars

\* C8 witness: two revisions of a quote are indexed, only the higher one has
\* an entry
C8_Witness ==
    /\ pc = "done" /\ ~args.dry_run
    /\ \E k \in DOMAIN files :
          /\ LowerRevision(k) /\ k \in seen_hashes
          /\ \E m \in DOMAIN files :
                /\ files[m].job_id = files[k].job_id
                /\ QVer(files[k]) < QVer(files[m])
                /\ HasFts(committed.fts, m)

\* the directories of cpath that match the job pattern
JobAncestors == {k \in 1..(Len(cpath) - 1) : cpath[k].job # NoJob}

\* C9 (as claimed): with more than one matching ancestor directory the job id
\* is that of the matching ancestor closest to the file.
C9_NearestMatch ==
    (cres.outcome # "pending" /\ Cardinality(JobAncestors) > 1) =>
        LET k == CHOOSE x \in JobAncestors : \A y \in JobAncestors : y <= x
        IN  cres.job_id = JobId(cpath[k].job)

\* the path lies under a quote root and year folder and has a quote number
QuoteShaped ==
    parse_quote_context(cpath, quotes_roots, q_year_min, q_year_max) # NoQuote

\* C10: a path with an ancestor matching the job pattern is classified to a
\* job id of its ancestry, also when it is quote-shaped; the quote
\* classification is attempted only when nothing in the path matches the job
\* pattern.
C10_JobBeforeQuote ==
    cres.outcome # "pending" =>
        /\ JobAncestors # {} =>
              /\ ~cres.job_id.q
              /\ \E k \in 1..Len(cpath) :
                    cpath[k].job # NoJob /\ cres.job_id = JobId(cpath[k].job)
              /\ Cardinality(JobAncestors) = 1 =>
                    \A k \in JobAncestors : cres.job_id = JobId(cpath[k].job)
        /\ cres.quote_tried => \A k \in 1..Len(cpath) : cpath[k].job = NoJob

\* C10 witness: a quote-shaped path below a job folder got the job's id
C10_Witness ==
    /\ cres.outcome # "pending" /\ QuoteShaped
    /\ Cardinality(JobAncestors) = 1
    /\ cpath[Len(cpath)].job = NoJob
    /\ ~cres.job_id.q /\ cres.job_id # NoId

\* nothing in cpath matches the job pattern
NoJobMatch == \A k \in 1..Len(cpath) : cpath[k].job = NoJob

\* the four-digit year folder right below quote root r, 0 if cpath has none
QuoteYear(r) ==
    IF IsUnder(cpath, quotes_roots[r]) /\ Len(cpath) > Len(quotes_roots[r]) + 1
    THEN cpath[Len(quotes_roots[r]) + 1].yyyy ELSE 0

\* the segment that names the quote: the nearest ancestor folder with a
\* quote-number token, else the file
QuoteToken ==
    LET hit == {k \in 1..(Len(cpath) - 1) : cpath[k].qnum # 0}
    IN  IF hit = {} THEN cpath[Len(cpath)]
        ELSE cpath[CHOOSE x \in hit : \A y \in hit : y <= x]

\* C11 (as claimed): a path under a quote root and a four-digit year folder Y
\* within the quote year bounds, with a quote-number token and nothing that
\* matches the job pattern, resolves to Q<num>-<Y mod 100> with the revision
\* of the token (0 without one), the token taken from the nearest ancestor
\* folder that has one, else from the file name.
C11_QuoteResolution ==
    (cres.outcome # "pending" /\ NoJobMatch /\ QuoteToken.qnum # 0) =>
        \A r \in 1..Len(quotes_roots) :
            (q_year_min <= QuoteYear(r) /\ QuoteYear(r) <= q_year_max) =>
                /\ cres.job_id = QuoteId(QuoteToken.qnum, QuoteYear(r) % 100)
                /\ cres.jy = QuoteYear(r)
                /\ cres.qver = IF QuoteToken.qver # Null THEN QuoteToken.qver
                               ELSE 0

\* C12 (as claimed): a file whose resolved year is outside the configured
\* range (the year of the job id against --year-min/--year-max, the year
\* folder of a quote against the quote window) is counted as out of year, not
\* as without a job.
C12_YearGate ==
    cres.outcome # "pending" =>
        /\ (/\ \E k \in 1..Len(cpath) : cpath[k].job # NoJob
            /\ ~cres.job_id.q /\ cres.job_id # NoId
            /\ ~(args.year_min <= job_year_from_job_id(cres.job_id)
                 /\ job_year_from_job_id(cres.job_id) <= args.year_max)) =>
               cres.outcome = "out_of_year"
        /\ (NoJobMatch /\ QuoteToken.qnum # 0) =>
               \A r \in 1..Len(quotes_roots) :
                   (QuoteYear(r) # 0
                    /\ ~(q_year_min <= QuoteYear(r) /\ QuoteYear(r) <= q_year_max)) =>
                       cres.outcome = "out_of_year"

\* C13 (as claimed): no step of a dry run changes a Jobs row, a Files row or
\* a searchable-content entry, whatever the other flags.
C13_DryRunNoWrites ==
    [][(args'.dry_run /\ pc' # "idle") =>
          /\ files' = files /\ jobs' = jobs /\ fts' = fts
          /\ committed' = committed]_vars

\* no two entries of the table have the same key
OneEntryPerKey(fts_t) ==
    \A e1, e2 \in fts_t : e1.file_hash16 = e2.file_hash16 => e1 = e2

\* C14: the searchable content has at most one entry per identity key in
\* every state, committed or not, and when a non-dry run has ended the only
\* entry of a file it indexed holds the text produced from the file as it is
\* on disk.
C14_ContentReplaced ==
    /\ OneEntryPerKey(committed.fts) /\ OneEntryPerKey(fts)
    /\ (pc = "done" /\ ~args.dry_run) =>
          \A i \in DOMAIN disk :
              Key(i) \in seen_hashes \ unchanged =>
                  \A e \in committed.fts :
                      e.file_hash16 = Key(i) =>
                          e = FtsRow(Tree[i], files[Key(i)].job_id, disk[i])

\* C14 witness: a file that had an entry was modified and indexed again; the
\* new text is committed
C14_Witness ==
    /\ pc = "done" /\ ~args.dry_run
    /\ \E i \in DOMAIN disk :
          /\ Key(i) \in seen_hashes \ unchanged
          /\ \E e \in prev.fts :
                /\ e.file_hash16 = Key(i)
                /\ e # FtsRow(Tree[i], files[Key(i)].job_id, disk[i])
          /\ FtsRow(Tree[i], files[Key(i)].job_id, disk[i]) \in committed.fts

\* a rename the run that just ended has observed: the old path is gone, the
\* new path was sighted, the old path had a row when the run started
RenameObserved(m) ==
    /\ m[1] \notin DOMAIN disk /\ m[2] \in DOMAIN disk
    /\ Key(m[2]) \in seen_hashes
    /\ Key(m[1]) \in DOMAIN prev.files

\* the row of key k is as it was when the run started, or soft-deleted by the
\* delete pass of a reconciling complete run
OldRowKept(k) ==
    /\ k \in DOMAIN files
    /\ \/ files[k] = prev.files[k]
       \/ /\ DeletePassEnabled(args)
          /\ files[k] = [prev.files[k] EXCEPT !.deleted = 1]

\* after a non-dry run, each observed rename of ms has a row under a new key
\* and the old row kept
RenamesIndexed(ms) ==
    (pc = "done" /\ ~args.dry_run) =>
        \A m \in ms :
            RenameObserved(m) =>
                /\ Key(m[2]) # Key(m[1])
                /\ Key(m[2]) \in DOMAIN files
                /\ OldRowKept(Key(m[1]))

\* a step changes the row of a path that is not on disk only in the delete
\* pass of a reconciling complete run, from deleted=0 to deleted=1
AbsentRowsFrame ==
    \A k \in DOMAIN files :
        (~OnDisk(k) /\ files'[k] # files[k]) =>
            /\ pc = "delete" /\ DeletePassEnabled(args)
            /\ files[k].deleted = 0
            /\ files'[k] = [files[k] EXCEPT !.deleted = 1]

\* the two paths differ in more than letter case
DiffersBeyondCase(i, j) ==
    [k \in 1..Len(Tree[i]) |-> Tree[i][k].lower]
        # [k \in 1..Len(Tree[j]) |-> Tree[j][k].lower]

\* C15 (as claimed): when a file is renamed and a non-dry run sights the new
\* path, there is a Files row under a new identity key, different from the old
\* one, and the row of the old path is unmodified unless the delete pass of a
\* reconciling complete run has set deleted=1.
C15_PathIdentity ==
    /\ [](RenamesIndexed(moved))
    /\ [][AbsentRowsFrame]_vars

\* C15 (amended): the same for a rename to a path that differs from the old
\* one in more than letter case.
C15_RenameIdentity ==
    /\ [](RenamesIndexed({m \in moved : DiffersBeyondCase(m[1], m[2])}))
    /\ [][AbsentRowsFrame]_vars

\* C15 witness: a --no-delete run has indexed the new path of a renamed file;
\* the row of the old path is still active
C15_Witness ==
    /\ pc = "done" /\ ~args.dry_run
    /\ \E m \in moved :
          /\ RenameObserved(m) /\ DiffersBeyondCase(m[1], m[2])
          /\ Key(m[2]) \in DOMAIN files /\ Key(m[2]) \notin DOMAIN prev.files
          /\ files[Key(m[1])].deleted = 0
          /\ files[Key(m[1])] = prev.files[Key(m[1])]

\* the files the run has queued as new or changed so far
IndexedNow == {i \in DOMAIN disk : Key(i) \in seen_hashes \ unchanged}

\* the committed tables hold the Files row / the searchable-content entry
\* made from file i as it is on disk
NewRowCommitted(i) ==
    /\ Key(i) \in DOMAIN committed.files
    /\ committed.files[Key(i)].deleted = 0
    /\ IsUnchanged(committed.files[Key(i)], disk[i][1], utc_iso(disk[i][2]))

NewFtsCommitted(i) ==
    FtsRow(Tree[i], Classify(Tree[i], args).job_id, disk[i]) \in committed.fts

\* C16 (as claimed): in every committed state of a non-dry run, up to the
\* revision cleanup that ends it, the Files row of a file queued by the run
\* and its searchable-content entry are committed both or neither.
C16_AtomicFlush ==
    (pc \in {"scan", "tail", "delete", "rollup", "cleanup"} /\ ~args.dry_run) =>
        \A i \in IndexedNow : NewRowCommitted(i) <=> NewFtsCommitted(i)

\* the keys of the rows of job j that are not soft-deleted
LiveRows(j) == {k \in DOMAIN files : files[k].job_id = j /\ files[k].deleted = 0}

\* C17: when a non-dry run has ended, every job that had a new or changed
\* file in the run has a Jobs row whose file count, byte size and
\* last-modified are the number, the sum of sizes and the greatest mtime of
\* the job's rows with deleted=0 as the delete pass left them.
C17_RollupCorrect ==
    (pc = "done" /\ ~args.dry_run) =>
        \A j \in DOMAIN per_job_seen_roots :
            /\ j \in DOMAIN jobs
            /\ jobs[j].file_count_total = Cardinality(LiveRows(j))
            /\ jobs[j].byte_size_total = SumSize(files, LiveRows(j))
            /\ \A k \in LiveRows(j) : files[k].mtime_utc <= jobs[j].last_modified_utc
            /\ \E k \in LiveRows(j) : files[k].mtime_utc = jobs[j].last_modified_utc

\* C17 witness: a run changed one file of a job and soft-deleted another; the
\* job counts the remaining one
C17_Witness ==
    /\ pc = "done" /\ ~args.dry_run
    /\ \E j \in DOMAIN per_job_seen_roots :
          /\ \E k \in DOMAIN prev.files :
                /\ prev.files[k].job_id = j
                /\ prev.files[k].deleted = 0 /\ files[k].deleted = 1
          /\ jobs[j].file_count_total = 1
          /\ prev.jobs[j].file_count_total = 2

\* C18: no step removes a Jobs row or changes the year of a row whose year
\* is not null, whatever year the sighting supplies.
C18_JobYearWriteOnce ==
    [][\A j \in DOMAIN jobs :
          /\ j \in DOMAIN jobs'
          /\ jobs[j].job_year # Null => jobs'[j].job_year = jobs[j].job_year]_vars

\* C18 witness: a quote first sighted under 1924 was sighted again under 2024;
\* the row has the later root and the first year
C18_Witness ==
    \E j \in DOMAIN jobs :
        /\ jobs[j].job_year = 1924
        /\ jobs[j].root_path = <<"P:", "QUOTES", "2024", "Q1234.2">>

\* C19 (as claimed): at most one indexing run has the store open at a time,
\* and the committed writes of two runs do not interleave: no commit of one
\* run lies between two commits of the other.
C19_SingleWriter ==
    /\ Cardinality({r \in Runs : cons.conn[r] = "open"}) <= 1
    /\ \A i, j, k \in 1..Len(cons.wlog) :
          (i < j /\ j < k /\ cons.wlog[i] = cons.wlog[k]) =>
              cons.wlog[j] = cons.wlog[i]

\* C20 (as claimed): a directory is given up only after its enumeration has
\* failed twice, the step that gives it up increments a counter, and the
\* directories and roots still pending stay pending.
C20_EnumerationErrors ==
    [][walk'.skipped # walk.skipped =>
          /\ walk.attempt = 1
          /\ Counters' # Counters
          /\ walk'.stack = walk.stack
          /\ walk'.roots \in {walk.roots, Tail(walk.roots)}]_vars

\* C21 (as claimed): the searchable text built for a file, name tokens
\* followed by the extracted body, is no longer than the configured character
\* budget.
C21_TextBudget == doc.built => Len(doc.content) <= MaxChars

\* the path with key k exists on disk, is classified to a job and passes the
\* year gate of the run
PresentInRange(k) ==
    \E i \in DOMAIN disk :
        /\ Key(i) = k
        /\ ~Ignored(Tree[i])
        /\ Classify(Tree[i], args).outcome = "ok"

\* C22 (as claimed): no step of a run sets deleted=1 on the row of a file that
\* exists on disk, is classifiable and in the year range of the run, also when
\* its directory failed to enumerate or its stat call failed.
C22_DeletesOnlyAbsent ==
    [][\A k \in DOMAIN files :
          (files[k].deleted = 0 /\ files'[k].deleted = 1) =>
              ~PresentInRange(k)]_vars

\* C23 (as claimed): when the run before was killed after a flush had
\* committed and before the rollup, then after a complete run over the
\* unmodified tree every Job's file count, byte size and last-modified are
\* those of its active Files rows.
C23_Recovery ==
    (pc = "done" /\ killed = "flushed" /\ CompleteRun(args) /\ ~dirty) =>
        \A j \in DOMAIN jobs :
            /\ jobs[j].file_count_total = Cardinality(LiveRows(j))
            /\ jobs[j].byte_size_total = SumSize(files, LiveRows(j))
            /\ jobs[j].last_modified_utc = MaxMtime(files, LiveRows(j))

\* C24 (as claimed): when a non-dry run with --rebuild-fts has ended, every
\* active Files row sighted in the run that is not a superseded quote
\* revision has a committed searchable-content entry.
C24_RebuildComplete ==
    (pc = "done" /\ ~args.dry_run /\ args.rebuild_fts) =>
        \A k \in seen_hashes :
            (/\ k \in DOMAIN files /\ files[k].deleted = 0
             /\ k \notin Superseded(files)) =>
                HasFts(committed.fts, k)

\* C25 (as claimed): in every committed state, during a run as well as after
\* it, no active quote PDF below the maximum active revision of its quote has
\* a searchable-content entry.
C25_RetentionAlways ==
    \A k \in Superseded(committed.files) : ~HasFts(committed.fts, k)

\* C26 (as claimed): in every committed state the key of every
\* searchable-content entry is the key of a Files row.
C26_NoOrphanContent ==
    \A e \in committed.fts : e.file_hash16 \in DOMAIN committed.files

\* C27 (as claimed): in every state of every run, dry runs included, neither
\* the pending file rows nor the pending searchable-content entries are more
\* than the flush threshold.
C27_BoundedBatches ==
    Len(batch) <= FlushThreshold /\ Len(fts_batch) <= FlushThreshold

\* C28 (as claimed): the root directory resolved for a job-classified file is
\* its nearest ancestor directory whose name matches the job pattern, so it
\* does not depend on where below that directory the file lies.
C28_StableJobRoot ==
    (cres.outcome = "ok" /\ ~cres.job_id.q /\ JobAncestors # {}) =>
        cres.job_root = CHOOSE x \in JobAncestors : \A y \in JobAncestors : y <= x

\* walk_files is exhausted: no root, no pending directory, none being listed
WalkDone == walk.roots = <<>> /\ walk.stack = <<>> /\ walk.d = <<>>

\* C29: walk_files comes to its end on the tree, with failing enumerations
\* and with symbolic links back to ancestors: the enumeration of a directory
\* is attempted at most twice, no symbolic link is ever pushed or listed, and
\* no directory is popped twice for one root.
C29_WalkTerminates ==
    /\ <>WalkDone
    /\ [](/\ walk.attempt <= 1
          /\ walk.d \notin SymLinks
          /\ \A n \in 1..Len(walk.stack) : walk.stack[n] \notin SymLinks)
    /\ [][(walk.d = <<>> /\ walk'.d # <<>>) => walk'.d \notin walk.popped]_vars

\* C29 witness: the walk has ended after giving up a directory and after
\* listing a directory that holds a link to its ancestor
C29_Witness ==
    /\ WalkDone /\ walk.skipped # {}
    /\ \E l \in SymLinks, n \in 1..Len(walk.out) :
          SubSeq(Tree[walk.out[n]], 1, Len(Tree[walk.out[n]]) - 1)
              = SubSeq(l, 1, Len(l) - 1)

\* C30 (as claimed): when the loop has ended, the scanned count is the sum of
\* indexed, skipped_unchanged, skipped_no_job, skipped_out_of_year,
\* skipped_ignored_ext and skipped_ignored_dir.
C30_CounterAccounting ==
    tally.stopped =>
        tally.counters.total_scanned =
            tally.counters.indexed + tally.counters.skipped_unchanged
            + tally.counters.skipped_no_job + tally.counters.skipped_out_of_year
            + tally.counters.skipped_ignored_ext
            + tally.counters.skipped_ignored_dir

====
